---- MODULE Spec2Model ----
(***************************************************************************)
(* Model of the sensor_msgs/msg/Image message parser of re_data_loader     *)
(* (crates/store/re_data_loader/src/mcap/schema/sensor_msgs/image.rs).     *)
(*                                                                         *)
(* One ImageMessageParser and its ParserContext are modelled.  The host    *)
(* feeds messages with append and ends the channel with finalize.          *)
(***************************************************************************)
EXTENDS Integers, Sequences, FiniteSets, TLC

\* Number of append calls the host makes on the channel before it must
\* finalize (accepted and rejected calls both count).
MaxCalls == 2

\* Widths and heights given to the format resolver when it is checked on its
\* own range over 0..MaxDim.
MaxDim == 4

\* Row-count hints given at parser creation range over 0..MaxHint.
MaxHint == 3

(***************************************************************************)
(* Results: anyhow::Result<T> as a record.                                 *)
(***************************************************************************)
NoError == [kind |-> "none", detail |-> ""]

Ok(v) == [ok |-> TRUE, val |-> v, err |-> NoError]

Err(kind, detail) == [ok |-> FALSE, val |-> <<>>, err |-> [kind |-> kind, detail |-> detail]]

(***************************************************************************)
(* re_types::datatypes::ImageFormat and its constructors.  Exactly one of  *)
(* the three shapes is populated: {color_model, channel_datatype},         *)
(* {pixel_format}, or {channel_datatype} alone (depth).                    *)
(***************************************************************************)
None == "None"

ImageFormat_from_color_model(dimensions, color_model, datatype) ==
    [width |-> dimensions[1], height |-> dimensions[2],
     pixel_format |-> None, color_model |-> color_model, channel_datatype |-> datatype]

ImageFormat_from_pixel_format(dimensions, pixel_format) ==
    [width |-> dimensions[1], height |-> dimensions[2],
     pixel_format |-> pixel_format, color_model |-> None, channel_datatype |-> None]

ImageFormat_depth(dimensions, datatype) ==
    [width |-> dimensions[1], height |-> dimensions[2],
     pixel_format |-> None, color_model |-> None, channel_datatype |-> datatype]

ImageFormat_rgb8(dimensions) == ImageFormat_from_color_model(dimensions, "RGB", "U8")

ImageFormat_rgba8(dimensions) == ImageFormat_from_color_model(dimensions, "RGBA", "U8")

\* The table with the bgr8 arm built from the RGB color model.
decode_image_format_bgr_as_rgb(encoding, dimensions) ==
    CASE encoding = "rgb8" -> Ok(ImageFormat_rgb8(dimensions))
      [] encoding = "rgba8" -> Ok(ImageFormat_rgba8(dimensions))
      [] encoding = "rgb16" -> Ok(ImageFormat_from_color_model(dimensions, "RGB", "U16"))
      [] encoding = "rgba16" -> Ok(ImageFormat_from_color_model(dimensions, "RGBA", "U16"))
      [] encoding = "bgr8" -> Ok(ImageFormat_from_color_model(dimensions, "RGB", "U8"))
      [] encoding = "bgra8" -> Ok(ImageFormat_from_color_model(dimensions, "BGRA", "U8"))
      [] encoding = "bgr16" -> Ok(ImageFormat_from_color_model(dimensions, "BGR", "U16"))
      [] encoding = "bgra16" -> Ok(ImageFormat_from_color_model(dimensions, "BGRA", "U16"))
      [] encoding = "mono8" -> Ok(ImageFormat_from_color_model(dimensions, "L", "U8"))
      [] encoding = "mono16" -> Ok(ImageFormat_from_color_model(dimensions, "L", "U16"))
      [] encoding \in {"yuyv", "yuv422_yuy2"} -> Ok(ImageFormat_from_pixel_format(dimensions, "YUY2"))
      [] encoding = "nv12" -> Ok(ImageFormat_from_pixel_format(dimensions, "NV12"))
      [] encoding = "8UC1" -> Ok(ImageFormat_depth(dimensions, "U8"))
      [] encoding = "8SC1" -> Ok(ImageFormat_depth(dimensions, "I8"))
      [] encoding = "16UC1" -> Ok(ImageFormat_depth(dimensions, "U16"))
      [] encoding = "16SC1" -> Ok(ImageFormat_depth(dimensions, "I16"))
      [] encoding = "32SC1" -> Ok(ImageFormat_depth(dimensions, "I32"))
      [] encoding = "32FC1" -> Ok(ImageFormat_depth(dimensions, "F32"))
      [] OTHER -> Err("Unsupported image format", encoding)

\* The table matched without regard to case for rgb8 and 8UC1.
decode_image_format_ignore_case(encoding, dimensions) ==
    CASE encoding \in {"rgb8", "RGB8"} -> Ok(ImageFormat_rgb8(dimensions))
      [] encoding = "rgba8" -> Ok(ImageFormat_rgba8(dimensions))
      [] encoding = "rgb16" -> Ok(ImageFormat_from_color_model(dimensions, "RGB", "U16"))
      [] encoding = "rgba16" -> Ok(ImageFormat_from_color_model(dimensions, "RGBA", "U16"))
      [] encoding = "bgr8" -> Ok(ImageFormat_from_color_model(dimensions, "BGR", "U8"))
      [] encoding = "bgra8" -> Ok(ImageFormat_from_color_model(dimensions, "BGRA", "U8"))
      [] encoding = "bgr16" -> Ok(ImageFormat_from_color_model(dimensions, "BGR", "U16"))
      [] encoding = "bgra16" -> Ok(ImageFormat_from_color_model(dimensions, "BGRA", "U16"))
      [] encoding = "mono8" -> Ok(ImageFormat_from_color_model(dimensions, "L", "U8"))
      [] encoding = "mono16" -> Ok(ImageFormat_from_color_model(dimensions, "L", "U16"))
      [] encoding \in {"yuyv", "yuv422_yuy2"} -> Ok(ImageFormat_from_pixel_format(dimensions, "YUY2"))
      [] encoding = "nv12" -> Ok(ImageFormat_from_pixel_format(dimensions, "NV12"))
      [] encoding \in {"8UC1", "8uc1"} -> Ok(ImageFormat_depth(dimensions, "U8"))
      [] encoding = "8SC1" -> Ok(ImageFormat_depth(dimensions, "I8"))
      [] encoding = "16UC1" -> Ok(ImageFormat_depth(dimensions, "U16"))
      [] encoding = "16SC1" -> Ok(ImageFormat_depth(dimensions, "I16"))
      [] encoding = "32SC1" -> Ok(ImageFormat_depth(dimensions, "I32"))
      [] encoding = "32FC1" -> Ok(ImageFormat_depth(dimensions, "F32"))
      [] OTHER -> Err("Unsupported image format", encoding)

(***************************************************************************)
(* fn decode_image_format(encoding, dimensions): the match of lines        *)
(* 196-258, arm by arm.  String equality is exact and case-sensitive.      *)
(***************************************************************************)
decode_image_format(encoding, dimensions) ==
    CASE encoding = "rgb8" -> Ok(ImageFormat_rgb8(dimensions))
      [] encoding = "rgba8" -> Ok(ImageFormat_rgba8(dimensions))
      [] encoding = "rgb16" -> Ok(ImageFormat_from_color_model(dimensions, "RGB", "U16"))
      [] encoding = "rgba16" -> Ok(ImageFormat_from_color_model(dimensions, "RGBA", "U16"))
      [] encoding = "bgr8" -> Ok(ImageFormat_from_color_model(dimensions, "BGR", "U8"))
      [] encoding = "bgra8" -> Ok(ImageFormat_from_color_model(dimensions, "BGRA", "U8"))
      [] encoding = "bgr16" -> Ok(ImageFormat_from_color_model(dimensions, "BGR", "U16"))
      [] encoding = "bgra16" -> Ok(ImageFormat_from_color_model(dimensions, "BGRA", "U16"))
      [] encoding = "mono8" -> Ok(ImageFormat_from_color_model(dimensions, "L", "U8"))
      [] encoding = "mono16" -> Ok(ImageFormat_from_color_model(dimensions, "L", "U16"))
      [] encoding \in {"yuyv", "yuv422_yuy2"} -> Ok(ImageFormat_from_pixel_format(dimensions, "YUY2"))
      [] encoding = "nv12" -> Ok(ImageFormat_from_pixel_format(dimensions, "NV12"))
      [] encoding = "8UC1" -> Ok(ImageFormat_depth(dimensions, "U8"))
      [] encoding = "8SC1" -> Ok(ImageFormat_depth(dimensions, "I8"))
      [] encoding = "16UC1" -> Ok(ImageFormat_depth(dimensions, "U16"))
      [] encoding = "16SC1" -> Ok(ImageFormat_depth(dimensions, "I16"))
      [] encoding = "32SC1" -> Ok(ImageFormat_depth(dimensions, "I32"))
      [] encoding = "32FC1" -> Ok(ImageFormat_depth(dimensions, "F32"))
      [] OTHER -> Err("Unsupported image format", encoding)

(***************************************************************************)
(* Inputs.  A frame is a decoded sensor_msgs::Image; a message payload is  *)
(* either the CDR encoding of a frame or a payload that does not decode.   *)
(***************************************************************************)
TableEncodings ==
    {"rgb8", "rgba8", "rgb16", "rgba16", "bgr8", "bgra8", "bgr16", "bgra16",
     "mono8", "mono16", "yuyv", "yuv422_yuy2", "nv12",
     "8UC1", "8SC1", "16UC1", "16SC1", "32SC1", "32FC1"}

OtherEncodings == {"", "RGB8", "8uc1", "jpeg"}

Encodings == TableEncodings \cup OtherEncodings

\* The remaining fields of the frames fed to the parser: two shapes that
\* differ in every field, the second with a zero width, an empty payload and
\* the largest height TLC represents.
FrameShapes ==
    << [stamp |-> [sec |-> 1, nanosec |-> 5], height |-> 2, width |-> 4,
        is_bigendian |-> FALSE, step |-> 12, data |-> <<1, 2, 3>>],
       [stamp |-> [sec |-> 0, nanosec |-> 7], height |-> 2147483647, width |-> 0,
        is_bigendian |-> TRUE, step |-> 0, data |-> <<>>] >>

Frame(enc, shape) ==
    [header |-> [stamp |-> shape.stamp], data |-> shape.data,
     height |-> shape.height, width |-> shape.width, encoding |-> enc,
     is_bigendian |-> shape.is_bigendian, step |-> shape.step]

Frames == {Frame(e, FrameShapes[k]) : e \in Encodings, k \in DOMAIN FrameShapes}

Messages ==
    {[data |-> [wellformed |-> TRUE, frame |-> f]] : f \in Frames}
    \cup {[data |-> [wellformed |-> FALSE, frame |-> Frame("rgb8", FrameShapes[1])]]}

\* cdr::try_decode_message::<sensor_msgs::Image>(&msg.data)
try_decode_message(data) ==
    IF data.wellformed THEN Ok(data.frame) ELSE Err("DecodeError", "")

\* header.stamp.as_nanos(): seconds and nanoseconds to nanoseconds since epoch.
as_nanos(stamp) == stamp.sec * 1000000000 + stamp.nanosec

\* TimeCell::from_timestamp_nanos_since_epoch
from_timestamp_nanos_since_epoch(nanos) == [typ |-> "TimestampNs", value |-> nanos]

\* `is_bigendian as u32`
as_u32(flag) == IF flag THEN 1 ELSE 0

(***************************************************************************)
(* arrow FixedSizeListBuilder of list size 1: the child values and one     *)
(* validity slot per appended list.                                        *)
(***************************************************************************)
fixed_size_list_builder == [values |-> <<>>, valid |-> <<>>]

builder_append_value(b, v) == [b EXCEPT !.values = Append(@, v)]

builder_append(b, is_valid) == [b EXCEPT !.valid = Append(@, is_valid)]

builder_len(b) == Len(b.valid)

\* finish(): one list of one value per appended slot.
builder_finish(b) == [i \in 1..Len(b.valid) |-> <<b.values[i]>>]

(***************************************************************************)
(* ParserContext: the time cells registered per timeline name.             *)
(***************************************************************************)
NewContext == [entity_path |-> "/channel", timelines |-> <<>>]

add_time_cell(c, name, cell) ==
    [c EXCEPT !.timelines =
        IF name \in DOMAIN c.timelines
        THEN [c.timelines EXCEPT ![name] = Append(@, cell)]
        ELSE [n \in DOMAIN c.timelines \cup {name} |->
                 IF n = name THEN <<cell>> ELSE c.timelines[n]]]

build_timelines(c) == c.timelines

(***************************************************************************)
(* Chunk emitter.  A column is a descriptor and an array of rows; a chunk  *)
(* is an entity path, the timelines and its columns.                       *)
(***************************************************************************)
ARCHETYPE_NAME == "sensor_msgs.msg.Image"

\* <Archetype>::update_fields().with_many_buffer(..).with_many_format(..)
\*     .columns_of_unit_batches(): one unit batch per row in each column.
columns_of_unit_batches(archetype, buffers, formats) ==
    IF Len(buffers) # Len(formats)
    THEN Err("Serialization", "")
    ELSE Ok(<< [descriptor |-> [archetype |-> archetype, component |-> "buffer"],
                array |-> [i \in 1..Len(buffers) |-> <<buffers[i]>>]],
               [descriptor |-> [archetype |-> archetype, component |-> "format"],
                array |-> [i \in 1..Len(formats) |-> <<formats[i]>>]] >>)

\* ComponentDescriptor::partial(name).with_archetype(ARCHETYPE_NAME) and its array
metadata_column(name, array) ==
    [descriptor |-> [archetype |-> ARCHETYPE_NAME, component |-> name], array |-> array]

\* Chunk::from_auto_row_ids: one row id per row of the first column; every
\* column and every timeline must have that many rows.
Chunk_from_auto_row_ids(entity_path, timelines, components) ==
    LET count == IF Len(components) = 0 THEN 0 ELSE Len(components[1].array)
    IN  IF /\ \A k \in 1..Len(components) : Len(components[k].array) = count
           /\ \A n \in DOMAIN timelines : Len(timelines[n]) = count
        THEN Ok([entity_path |-> entity_path, timelines |-> timelines,
                 components |-> components, num_rows |-> count])
        ELSE Err("BatchConstruction", "")

(***************************************************************************)
(* State.                                                                  *)
(***************************************************************************)
VARIABLES
    blobs,            \* ImageMessageParser.blobs
    image_formats,    \* ImageMessageParser.image_formats
    height,           \* the five metadata column builders
    width,
    encoding,
    is_bigendian,
    step,
    is_depth_image,   \* ImageMessageParser.is_depth_image
    num_rows,         \* the row-count hint the collections were created with
    phase,            \* "accumulating" until finalize has consumed the parser
    ctx,              \* the channel's ParserContext
    output,           \* what finalize returned
    last,             \* the last call made on the parser and what it returned
    accepted,         \* history: the frames of the appends that returned Ok
    calls,            \* history: the number of append calls made
    call,             \* a call of decode_image_format on its own: input and result
    other             \* the parser of the other channel, while the host is not on it

parser == <<blobs, image_formats, height, width, encoding, is_bigendian, step, is_depth_image>>

vars == <<blobs, image_formats, height, width, encoding, is_bigendian, step,
          is_depth_image, num_rows, phase, ctx, output, last, accepted, calls, call, other>>

NoResult == [ok |-> FALSE, val |-> <<>>, err |-> NoError]

NoCall == [encoding |-> "", dimensions |-> <<0, 0>>, done |-> FALSE, result |-> NoResult]

\* A push that stops at the capacity the vector was created with.
vec_push_within_capacity(v, x) == IF Len(v) < num_rows THEN Append(v, x) ELSE v

\* Vec::push: the vector grows past the capacity it was created with.
vec_push(v, x) == Append(v, x)

\* ImageMessageParser::new(num_rows): empty collections with room reserved
\* for n rows.
new(n) ==
    /\ blobs = <<>>
    /\ image_formats = <<>>
    /\ height = fixed_size_list_builder
    /\ width = fixed_size_list_builder
    /\ encoding = fixed_size_list_builder
    /\ is_bigendian = fixed_size_list_builder
    /\ step = fixed_size_list_builder
    /\ is_depth_image = FALSE
    /\ num_rows = n

\* ImageSchemaPlugin::create_message_parser: a parser for the channel, with
\* the channel's fresh context.
create_message_parser(n) ==
    /\ new(n)
    /\ phase = "accumulating"
    /\ ctx = NewContext
    /\ output = NoResult
    /\ last = [op |-> "new", msg |-> <<>>, result |-> Ok(<<>>), resolved |-> NoResult]
    /\ accepted = <<>>
    /\ calls = 0

\* One parser with its context and the record of the calls made on it.
instance ==
    [blobs |-> blobs, image_formats |-> image_formats, height |-> height,
     width |-> width, encoding |-> encoding, is_bigendian |-> is_bigendian,
     step |-> step, is_depth_image |-> is_depth_image, num_rows |-> num_rows,
     phase |-> phase, ctx |-> ctx, output |-> output, last |-> last,
     accepted |-> accepted, calls |-> calls]

\* The host sizes the parser by the number of messages of the channel.  The
\* parser of the second channel is created alike.
Init ==
    /\ create_message_parser(MaxCalls)
    /\ call = NoCall
    /\ other = [id |-> 2, state |-> instance]

(***************************************************************************)
(* ImageMessageParser::append                                              *)
(***************************************************************************)
\* append with the blob pushed before the format is resolved: a rejected
\* encoding then leaves a blob behind.
append_push_before_resolve(msg) ==
    /\ phase = "accumulating"
    /\ calls < MaxCalls
    /\ calls' = calls + 1
    /\ UNCHANGED <<num_rows, phase, output, call, other>>
    /\ LET decoded == try_decode_message(msg.data)
       IN  IF ~decoded.ok
           THEN /\ last' = [op |-> "append", msg |-> msg, result |-> decoded, resolved |-> NoResult]
                /\ UNCHANGED <<parser, ctx, accepted>>
           ELSE LET frame == decoded.val
                    img_format == decode_image_format(frame.encoding, <<frame.width, frame.height>>)
                IN  /\ ctx' = add_time_cell(ctx, "timestamp",
                                  from_timestamp_nanos_since_epoch(as_nanos(frame.header.stamp)))
                    /\ blobs' = vec_push(blobs, frame.data)
                    /\ IF ~img_format.ok
                       THEN /\ last' = [op |-> "append", msg |-> msg, result |-> img_format,
                                        resolved |-> img_format]
                            /\ UNCHANGED <<image_formats, height, width, encoding,
                                           is_bigendian, step, is_depth_image, accepted>>
                       ELSE /\ is_depth_image' = (img_format.val.color_model = None)
                            /\ image_formats' = vec_push(image_formats, img_format.val)
                            /\ height' = builder_append(builder_append_value(height, frame.height), TRUE)
                            /\ width' = builder_append(builder_append_value(width, frame.width), TRUE)
                            /\ encoding' = builder_append(builder_append_value(encoding, frame.encoding), TRUE)
                            /\ is_bigendian' = builder_append(
                                   builder_append_value(is_bigendian, as_u32(frame.is_bigendian)), TRUE)
                            /\ step' = builder_append(builder_append_value(step, frame.step), TRUE)
                            /\ accepted' = Append(accepted, frame)
                            /\ last' = [op |-> "append", msg |-> msg, result |-> Ok(<<>>),
                                        resolved |-> img_format]

\* append that clears the flag when the encoding is rejected.
append_flag_reset_on_reject(msg) ==
    /\ phase = "accumulating"
    /\ calls < MaxCalls
    /\ calls' = calls + 1
    /\ UNCHANGED <<num_rows, phase, output, call, other>>
    /\ LET decoded == try_decode_message(msg.data)
       IN  IF ~decoded.ok
           THEN /\ last' = [op |-> "append", msg |-> msg, result |-> decoded, resolved |-> NoResult]
                /\ UNCHANGED <<parser, ctx, accepted>>
           ELSE LET frame == decoded.val
                    ctx1 == add_time_cell(ctx, "timestamp",
                                from_timestamp_nanos_since_epoch(as_nanos(frame.header.stamp)))
                    dimensions == <<frame.width, frame.height>>
                    img_format == decode_image_format(frame.encoding, dimensions)
                IN  /\ ctx' = ctx1
                    /\ IF ~img_format.ok
                       THEN /\ last' = [op |-> "append", msg |-> msg, result |-> img_format,
                                        resolved |-> img_format]
                            /\ is_depth_image' = FALSE
                            /\ UNCHANGED <<blobs, image_formats, height, width, encoding,
                                           is_bigendian, step, accepted>>
                       ELSE /\ is_depth_image' = (img_format.val.color_model = None)
                            /\ blobs' = vec_push(blobs, frame.data)
                            /\ image_formats' = vec_push(image_formats, img_format.val)
                            /\ height' = builder_append(builder_append_value(height, frame.height), TRUE)
                            /\ width' = builder_append(builder_append_value(width, frame.width), TRUE)
                            /\ encoding' = builder_append(builder_append_value(encoding, frame.encoding), TRUE)
                            /\ is_bigendian' = builder_append(
                                   builder_append_value(is_bigendian, as_u32(frame.is_bigendian)), TRUE)
                            /\ step' = builder_append(builder_append_value(step, frame.step), TRUE)
                            /\ accepted' = Append(accepted, frame)
                            /\ last' = [op |-> "append", msg |-> msg, result |-> Ok(<<>>),
                                        resolved |-> img_format]

append(msg) ==
    /\ phase = "accumulating"
    /\ calls < MaxCalls
    /\ calls' = calls + 1
    /\ UNCHANGED <<num_rows, phase, output, call, other>>
    /\ LET decoded == try_decode_message(msg.data)
       IN  IF ~decoded.ok
           THEN /\ last' = [op |-> "append", msg |-> msg, result |-> decoded, resolved |-> NoResult]
                /\ UNCHANGED <<parser, ctx, accepted>>
           ELSE LET frame == decoded.val
                    ctx1 == add_time_cell(ctx, "timestamp",
                                from_timestamp_nanos_since_epoch(as_nanos(frame.header.stamp)))
                    dimensions == <<frame.width, frame.height>>
                    img_format == decode_image_format(frame.encoding, dimensions)
                IN  /\ ctx' = ctx1
                    /\ IF ~img_format.ok
                       THEN /\ last' = [op |-> "append", msg |-> msg, result |-> img_format,
                                        resolved |-> img_format]
                            /\ UNCHANGED <<parser, accepted>>
                       ELSE /\ is_depth_image' = (img_format.val.color_model = None)
                            /\ blobs' = vec_push(blobs, frame.data)
                            /\ image_formats' = vec_push(image_formats, img_format.val)
                            /\ height' = builder_append(builder_append_value(height, frame.height), TRUE)
                            /\ width' = builder_append(builder_append_value(width, frame.width), TRUE)
                            /\ encoding' = builder_append(builder_append_value(encoding, frame.encoding), TRUE)
                            /\ is_bigendian' = builder_append(
                                   builder_append_value(is_bigendian, as_u32(frame.is_bigendian)), TRUE)
                            /\ step' = builder_append(builder_append_value(step, frame.step), TRUE)
                            /\ accepted' = Append(accepted, frame)
                            /\ last' = [op |-> "append", msg |-> msg, result |-> Ok(<<>>),
                                        resolved |-> img_format]

(***************************************************************************)
(* ImageMessageParser::finalize: consumes the parser and the context.      *)
(***************************************************************************)
\* The archetype chosen without looking at the flag.
image_archetype_always_color == "Image"

image_archetype == IF is_depth_image THEN "DepthImage" ELSE "Image"

\* The image columns with the first blob handed over for every row.
images_first_blob_repeated ==
    columns_of_unit_batches(image_archetype, [i \in 1..Len(blobs) |-> blobs[1]], image_formats)

images == columns_of_unit_batches(image_archetype, blobs, image_formats)

image_chunk ==
    Chunk_from_auto_row_ids(ctx.entity_path, build_timelines(ctx), images.val)

\* The metadata columns with the height and width arrays exchanged.
metadata_components_swapped ==
    << metadata_column("height", builder_finish(width)),
       metadata_column("width", builder_finish(height)),
       metadata_column("encoding", builder_finish(encoding)),
       metadata_column("is_bigendian", builder_finish(is_bigendian)),
       metadata_column("step", builder_finish(step)) >>

metadata_components ==
    << metadata_column("height", builder_finish(height)),
       metadata_column("width", builder_finish(width)),
       metadata_column("encoding", builder_finish(encoding)),
       metadata_column("is_bigendian", builder_finish(is_bigendian)),
       metadata_column("step", builder_finish(step)) >>

metadata_chunk ==
    Chunk_from_auto_row_ids(ctx.entity_path, build_timelines(ctx), metadata_components)

\* finalize returning the image chunk alone.
finalize_result_image_only ==
    IF ~images.ok THEN images
    ELSE IF ~image_chunk.ok THEN image_chunk
    ELSE IF ~metadata_chunk.ok THEN metadata_chunk
    ELSE Ok(<<image_chunk.val>>)

\* finalize returning whichever chunks could be built instead of the error.
finalize_result_skips_failed ==
    IF ~images.ok THEN images
    ELSE Ok((IF image_chunk.ok THEN <<image_chunk.val>> ELSE <<>>)
            \o (IF metadata_chunk.ok THEN <<metadata_chunk.val>> ELSE <<>>))

\* The value finalize returns: each `?` returns the error of its step.
finalize_result ==
    IF ~images.ok THEN images
    ELSE IF ~image_chunk.ok THEN image_chunk
    ELSE IF ~metadata_chunk.ok THEN metadata_chunk
    ELSE Ok(<<image_chunk.val, metadata_chunk.val>>)

\* finalize on a borrowed parser: the parser stays usable afterwards.
finalize_borrows ==
    /\ phase = "accumulating"
    /\ output' = finalize_result
    /\ last' = [op |-> "finalize", msg |-> <<>>,
                result |-> IF finalize_result.ok THEN Ok(<<>>) ELSE finalize_result,
                resolved |-> NoResult]
    /\ UNCHANGED <<parser, num_rows, phase, ctx, accepted, calls, call, other>>

finalize ==
    /\ phase = "accumulating"
    /\ phase' = "finalized"
    /\ output' = finalize_result
    /\ last' = [op |-> "finalize", msg |-> <<>>,
                result |-> IF finalize_result.ok THEN Ok(<<>>) ELSE finalize_result,
                resolved |-> NoResult]
    \* `*self` is destructured and its fields are moved out
    /\ blobs' = <<>>
    /\ image_formats' = <<>>
    /\ height' = fixed_size_list_builder
    /\ width' = fixed_size_list_builder
    /\ encoding' = fixed_size_list_builder
    /\ is_bigendian' = fixed_size_list_builder
    /\ step' = fixed_size_list_builder
    /\ UNCHANGED <<is_depth_image, num_rows, ctx, accepted, calls, call, other>>

Next ==
    \/ \E msg \in Messages : append(msg)
    \/ finalize

Spec == Init /\ [][Next]_vars

(***************************************************************************)
(* The format resolver on its own: decode_image_format applied to every    *)
(* encoding of Encodings and every pair of dimensions in 0..MaxDim.        *)
(***************************************************************************)
InitResolve ==
    /\ create_message_parser(MaxCalls)
    /\ other = [id |-> 2, state |-> instance]
    /\ \E e \in Encodings, w \in 0..MaxDim, h \in 0..MaxDim :
           call = [encoding |-> e, dimensions |-> <<w, h>>, done |-> FALSE,
                   result |-> NoResult]

resolve ==
    /\ ~call.done
    /\ call' = [call EXCEPT !.done = TRUE,
                            !.result = decode_image_format(call.encoding, call.dimensions)]
    /\ UNCHANGED <<parser, num_rows, phase, ctx, output, last, accepted, calls, other>>

SpecResolve == InitResolve /\ [][resolve]_vars

(***************************************************************************)
(* The parser under every row-count hint in 0..MaxHint, fed from a small   *)
(* set of messages: three that are accepted, one with an unknown encoding  *)
(* and one that does not decode.                                           *)
(***************************************************************************)
SmallMessages ==
    {[data |-> [wellformed |-> TRUE, frame |-> f]] :
         f \in {Frame("rgb8", FrameShapes[1]), Frame("16UC1", FrameShapes[2]),
                Frame("nv12", FrameShapes[1]), Frame("RGB8", FrameShapes[2])}}
    \cup {[data |-> [wellformed |-> FALSE, frame |-> Frame("rgb8", FrameShapes[1])]]}

InitHint ==
    /\ \E h \in 0..MaxHint : create_message_parser(h)
    /\ call = NoCall
    /\ other = [id |-> 2, state |-> instance]

NextHint ==
    \/ \E msg \in SmallMessages : append(msg)
    \/ finalize

SpecHint == InitHint /\ [][NextHint]_vars

(***************************************************************************)
(* Two channels.  The host works on one parser at a time and may turn to   *)
(* the other between any two calls; each parser has its own fields and its *)
(* own context.                                                            *)
(***************************************************************************)
\* A classification flag held once for all parsers instead of per parser.
is_depth_image_shared(inst) == is_depth_image

\* self.is_depth_image: a field of the parser the call is made on.
is_depth_image_of(inst) == inst.is_depth_image

\* The host turns to the parser of the other channel.
swap ==
    /\ other' = [id |-> 3 - other.id, state |-> instance]
    /\ blobs' = other.state.blobs
    /\ image_formats' = other.state.image_formats
    /\ height' = other.state.height
    /\ width' = other.state.width
    /\ encoding' = other.state.encoding
    /\ is_bigendian' = other.state.is_bigendian
    /\ step' = other.state.step
    /\ is_depth_image' = is_depth_image_of(other.state)
    /\ num_rows' = other.state.num_rows
    /\ phase' = other.state.phase
    /\ ctx' = other.state.ctx
    /\ output' = other.state.output
    /\ last' = other.state.last
    /\ accepted' = other.state.accepted
    /\ calls' = other.state.calls
    /\ UNCHANGED call

NextTwo ==
    \/ \E msg \in SmallMessages : append(msg)
    \/ finalize
    \/ swap

SpecTwo == Init /\ [][NextTwo]_vars

(***************************************************************************)
(* Properties.                                                             *)
(***************************************************************************)
\* Number of appends that returned Ok.
N == Len(accepted)

\* The cells registered under the "timestamp" timeline.
timestamp_cells ==
    IF "timestamp" \in DOMAIN ctx.timelines THEN ctx.timelines["timestamp"] ELSE <<>>

builders == <<height, width, encoding, is_bigendian, step>>

\* The lengths of the two collections and of the five builders.
collection_lengths ==
    {Len(blobs), Len(image_formats)}
    \cup {builder_len(builders[k]) : k \in 1..5}
    \cup {Len(builders[k].values) : k \in 1..5}

\* Between calls the collections and the builders all hold N entries.
LengthInvariant == phase = "accumulating" => collection_lengths = {N}

append_step == calls' = calls + 1

\* A message append must reject: it does not decode, or its encoding is not
\* in the format table.
Rejectable(msg) ==
    \/ ~msg.data.wellformed
    \/ msg.data.frame.encoding \notin TableEncodings

\* C1: after any sequence of append calls of which N returned Ok, the blob
\* collection, the format collection and the five builders hold exactly N
\* entries, and finalize then yields exactly N rows in the image batch and
\* in the metadata batch.
C1_ExactlyNEntriesAndRows ==
    /\ phase = "accumulating" => collection_lengths = {N}
    /\ phase = "finalized" =>
          /\ output.ok
          /\ Len(output.val) = 2
          /\ output.val[1].num_rows = N
          /\ output.val[2].num_rows = N

\* C2: an append that fails (the payload does not decode, or the encoding is
\* not in the format table) returns an error and leaves the blob collection,
\* the format collection and the five builders exactly as they were.
C2_FailedAppendLeavesCollections ==
    [][(append_step /\ (~last'.result.ok \/ Rejectable(last'.msg))) =>
          /\ ~last'.result.ok
          /\ last'.result.err.kind \in {"DecodeError", "Unsupported image format"}
          /\ UNCHANGED <<blobs, image_formats, height, width, encoding, is_bigendian, step>>]_vars

\* A failed append after an accepted frame: the one row is still there.
C2_Witness ==
    /\ last.op = "append"
    /\ ~last.result.ok
    /\ collection_lengths = {1}
    /\ blobs = <<accepted[1].data>>

\* Later appends still succeed: an accepted frame right after a failed append.
C2_LaterAppendSucceeds == calls = 2 /\ N = 1 /\ last.op = "append" /\ last.result.ok

\* C3: after any sequence of append calls, the number of time cells
\* registered under "timestamp" equals the number of appends that returned Ok.
C3_OneTimeCellPerAcceptedFrame == Len(timestamp_cells) = N

\* C4: finalize never fails with a batch-construction (length mismatch)
\* error, whatever mix of accepted and rejected appends came before.
C4_FinalizeNeverMismatches ==
    phase = "finalized" => output.err.kind # "BatchConstruction"

\* The descriptor the format table gives for each encoding.
ColorTable ==
    { <<"rgb8", "RGB", "U8">>, <<"rgba8", "RGBA", "U8">>,
      <<"rgb16", "RGB", "U16">>, <<"rgba16", "RGBA", "U16">>,
      <<"bgr8", "BGR", "U8">>, <<"bgra8", "BGRA", "U8">>,
      <<"bgr16", "BGR", "U16">>, <<"bgra16", "BGRA", "U16">>,
      <<"mono8", "L", "U8">>, <<"mono16", "L", "U16">> }

PackedTable == { <<"yuyv", "YUY2">>, <<"yuv422_yuy2", "YUY2">>, <<"nv12", "NV12">> }

DepthTable ==
    { <<"8UC1", "U8">>, <<"8SC1", "I8">>, <<"16UC1", "U16">>,
      <<"16SC1", "I16">>, <<"32SC1", "I32">>, <<"32FC1", "F32">> }

\* The resolved format of an accepted frame.
resolved_format(frame) == decode_image_format(frame.encoding, <<frame.width, frame.height>>).val

\* The array of the column of a chunk that holds the named component.
column(chunk, name) ==
    LET k == CHOOSE k \in 1..Len(chunk.components) :
                 chunk.components[k].descriptor.component = name
    IN  chunk.components[k].array

archetypes(chunk) ==
    {chunk.components[k].descriptor.archetype : k \in 1..Len(chunk.components)}

finalized_ok == phase = "finalized" /\ output.ok

\* The archetype last-frame-wins asks for: depth when the last accepted frame
\* resolved to a descriptor with no color model, color otherwise.
last_frame_archetype ==
    IF resolved_format(accepted[N]).color_model = None THEN "DepthImage" ELSE "Image"

\* C5: last frame wins.  The image columns finalize builds, and the image
\* batch it returns, are tagged with the depth-image archetype when the last
\* accepted frame resolved to a descriptor with no color model and with the
\* color-image archetype when it resolved to one with a color model,
\* whatever the earlier accepted frames were; every column carries that one
\* archetype.
C5_LastFrameWins ==
    /\ (phase = "accumulating" /\ N > 0) =>
          /\ images.ok
          /\ {images.val[k].descriptor.archetype : k \in 1..Len(images.val)}
                = {last_frame_archetype}
    /\ (finalized_ok /\ N > 0) => archetypes(output.val[1]) = {last_frame_archetype}

\* A color frame followed by a depth frame, emitted as a depth image.
C5_Witness ==
    /\ finalized_ok
    /\ N = 2
    /\ accepted[1].encoding = "rgb8"
    /\ accepted[2].encoding = "16UC1"
    /\ archetypes(output.val[1]) = {"DepthImage"}

\* A depth frame followed by a color frame, emitted as a color image.
C5_ColorAfterDepth ==
    /\ finalized_ok
    /\ N = 2
    /\ accepted[1].encoding = "32FC1"
    /\ accepted[2].encoding = "mono8"
    /\ archetypes(output.val[1]) = {"Image"}

\* C6: for each of the 19 encodings of the format table and every pair of
\* dimensions, the resolver returns the descriptor the table gives for the
\* encoding, with the given width and height.
C6_ResolvesTableEncodings ==
    (call.done /\ call.encoding \in TableEncodings) =>
        /\ call.result.ok
        /\ call.result.val.width = call.dimensions[1]
        /\ call.result.val.height = call.dimensions[2]
        /\ \A r \in ColorTable : call.encoding = r[1] =>
              /\ call.result.val.color_model = r[2]
              /\ call.result.val.channel_datatype = r[3]
              /\ call.result.val.pixel_format = None
        /\ \A r \in PackedTable : call.encoding = r[1] =>
              /\ call.result.val.pixel_format = r[2]
              /\ call.result.val.color_model = None
              /\ call.result.val.channel_datatype = None
        /\ \A r \in DepthTable : call.encoding = r[1] =>
              /\ call.result.val.channel_datatype = r[2]
              /\ call.result.val.color_model = None
              /\ call.result.val.pixel_format = None
        /\ call.encoding \in {r[1] : r \in ColorTable \cup DepthTable}
                             \cup {r[1] : r \in PackedTable}

\* "rgb8" with width 4 and height 2 resolved to RGB, 8-bit, (4, 2).
C6_Witness ==
    /\ call.done
    /\ call.encoding = "rgb8"
    /\ call.dimensions = <<4, 2>>
    /\ call.result.ok
    /\ call.result.val = [width |-> 4, height |-> 2, pixel_format |-> None,
                          color_model |-> "RGB", channel_datatype |-> "U8"]

\* "32FC1" resolved to a depth descriptor: 32-bit float, no color model.
C6_DepthExample ==
    /\ call.done
    /\ call.encoding = "32FC1"
    /\ call.result.ok
    /\ call.result.val.channel_datatype = "F32"
    /\ call.result.val.color_model = None

\* C7: for an encoding that is not an exact, case-sensitive match of a table
\* entry the resolver fails with an unsupported-format error carrying that
\* string, and the append of the frame fails with that error; no descriptor
\* is produced.
C7_UnknownEncodingFails ==
    (/\ last.op = "append"
     /\ last.msg.data.wellformed
     /\ last.msg.data.frame.encoding \notin TableEncodings) =>
        /\ ~last.resolved.ok
        /\ last.resolved.err =
              [kind |-> "Unsupported image format", detail |-> last.msg.data.frame.encoding]
        /\ last.result = last.resolved

\* The case variant "RGB8" was rejected.
C7_Witness ==
    /\ last.op = "append"
    /\ last.msg.data.wellformed
    /\ last.msg.data.frame.encoding = "RGB8"
    /\ ~last.result.ok
    /\ last.result.err.detail = "RGB8"

\* C8: finalize with no append before it returns Ok with two batches, the
\* image batch and then the metadata batch, each with zero rows.
C8_EmptyFinalize ==
    (phase = "finalized" /\ calls = 0) =>
        /\ output.ok
        /\ Len(output.val) = 2
        /\ archetypes(output.val[1]) = {"Image"}
        /\ archetypes(output.val[2]) = {ARCHETYPE_NAME}
        /\ output.val[1].num_rows = 0
        /\ output.val[2].num_rows = 0
        /\ \A k \in 1..2 : \A c \in 1..Len(output.val[k].components) :
              output.val[k].components[c].array = <<>>

C8_Witness == phase = "finalized" /\ calls = 0 /\ output.ok /\ Len(output.val) = 2

\* C9: a parser starts accumulating; finalize moves it to the finalized
\* phase, from which no step is taken (no second finalize, no append), and
\* leaves none of the accumulated state in the parser.
C9_FinalizedIsTerminal ==
    /\ phase = "accumulating"
    /\ [][/\ phase = "accumulating"
          /\ last'.op = "finalize" =>
                /\ phase' = "finalized"
                /\ blobs' = <<>>
                /\ image_formats' = <<>>
                /\ \A k \in 1..5 : builders[k]' = fixed_size_list_builder]_vars

\* Finalized after two accepted frames: the parser holds nothing any more.
C9_Witness ==
    /\ phase = "finalized"
    /\ N = 2
    /\ last.op = "finalize"
    /\ collection_lengths = {0}

\* C10: the two batches finalize returns are row-aligned in acceptance
\* order: row i of the image batch holds the blob and the resolved format of
\* the i-th accepted frame, row i of the metadata batch holds its height,
\* width, encoding, endianness flag and stride; both carry the same
\* timelines; the image batch comes first and the metadata batch second.
C10_RowAligned ==
    finalized_ok =>
        LET image == output.val[1]
            metadata == output.val[2]
        IN  /\ Len(output.val) = 2
            /\ archetypes(image) \subseteq {"Image", "DepthImage"}
            /\ archetypes(metadata) = {ARCHETYPE_NAME}
            /\ image.num_rows = N
            /\ metadata.num_rows = N
            /\ image.timelines = metadata.timelines
            /\ column(image, "buffer") = [i \in 1..N |-> <<accepted[i].data>>]
            /\ column(image, "format") = [i \in 1..N |-> <<resolved_format(accepted[i])>>]
            /\ column(metadata, "height") = [i \in 1..N |-> <<accepted[i].height>>]
            /\ column(metadata, "width") = [i \in 1..N |-> <<accepted[i].width>>]
            /\ column(metadata, "encoding") = [i \in 1..N |-> <<accepted[i].encoding>>]
            /\ column(metadata, "is_bigendian") =
                  [i \in 1..N |-> <<as_u32(accepted[i].is_bigendian)>>]
            /\ column(metadata, "step") = [i \in 1..N |-> <<accepted[i].step>>]

\* Two accepted frames that differ in every field, emitted in order.
C10_Witness ==
    /\ finalized_ok
    /\ N = 2
    /\ accepted[1] = Frame("rgb8", FrameShapes[1])
    /\ accepted[2] = Frame("bgra16", FrameShapes[2])
    /\ column(output.val[2], "width") = << <<4>>, <<0>> >>
    /\ column(output.val[1], "buffer") = << <<(<<1, 2, 3>>)>>, <<(<<>>)>> >>

\* C11: finalize returns either both batches or an error and nothing else:
\* when the construction of a batch fails no batch is returned.
C11_BothBatchesOrError ==
    phase = "finalized" =>
        \/ output.ok /\ Len(output.val) = 2
        \/ ~output.ok /\ output.val = <<>> /\ output.err.kind # "none"

\* finalize failed on the image batch of a channel with one accepted frame.
C11_Witness ==
    /\ phase = "finalized"
    /\ N = 1
    /\ ~output.ok
    /\ output.err.kind = "BatchConstruction"
    /\ output.val = <<>>

\* The payloads fed to the parser.
Payloads == {f.data : f \in Frames}

\* How many of the accepted frames carry payload d, and how many rows of
\* the image batch hold it.
accepted_with(d) == Cardinality({i \in 1..N : accepted[i].data = d})

rows_with(d) ==
    Cardinality({i \in 1..Len(column(output.val[1], "buffer")) :
                     column(output.val[1], "buffer")[i] = <<d>>})

\* C14: every accepted frame's payload is in the image batch exactly once,
\* with the bytes of the decoded message: the blobs of the image batch and
\* the payloads of the accepted frames are the same multiset.
C14_BlobsTransferredOnce ==
    finalized_ok =>
        /\ Len(column(output.val[1], "buffer")) = N
        /\ \A i \in 1..N : Len(column(output.val[1], "buffer")[i]) = 1
        /\ \A d \in Payloads : rows_with(d) = accepted_with(d)

\* Two accepted frames with different payloads, each in the batch once.
C14_Witness ==
    /\ finalized_ok
    /\ N = 2
    /\ accepted[1].data = <<1, 2, 3>>
    /\ accepted[2].data = <<>>
    /\ rows_with(<<1, 2, 3>>) = 1
    /\ rows_with(<<>>) = 1

DepthEncodings == {r[1] : r \in DepthTable}

\* C15: an accepted frame marks the channel as depth only when its encoding
\* is one of the six depth encodings; a frame with a color-model or a packed
\* pixel-format encoding marks it as not depth, so a channel that ends with
\* such a frame is emitted under the color-image archetype.
C15_DepthOnlyForDepthEncodings ==
    (finalized_ok /\ N > 0) =>
        /\ is_depth_image = (accepted[N].encoding \in DepthEncodings)
        /\ archetypes(output.val[1]) =
              {IF accepted[N].encoding \in DepthEncodings THEN "DepthImage" ELSE "Image"}

\* C16: the classification flag is written only by accepted frames: an
\* append that fails, at decode or at format resolution, leaves the flag and
\* with it the archetype finalize chooses as the last accepted frame set them.
C16_RejectedAppendKeepsFlag ==
    [][(append_step /\ ~last'.result.ok) =>
          /\ is_depth_image' = is_depth_image
          /\ image_archetype' = image_archetype]_vars

\* A rejected append after an accepted depth frame: the channel is still depth.
C16_Witness ==
    /\ calls = 2
    /\ N = 1
    /\ accepted[1].encoding = "16UC1"
    /\ last.op = "append"
    /\ ~last.result.ok
    /\ is_depth_image
    /\ image_archetype = "DepthImage"

\* C17: for every i up to the number of accepted frames, the i-th cell of
\* the "timestamp" timeline is the sensor timestamp, in nanoseconds since
\* epoch, of the i-th accepted frame.
C17_TimestampsRowAligned ==
    \A i \in 1..N :
        /\ i <= Len(timestamp_cells)
        /\ timestamp_cells[i] =
              from_timestamp_nanos_since_epoch(as_nanos(accepted[i].header.stamp))

\* The flag is not set before a frame is accepted.
FlagFalseUntilAccepted == N = 0 => ~is_depth_image

\* C18: a fresh parser is not depth and stays so until a frame is accepted;
\* a channel finalized with no accepted frame (no append, or only failed
\* appends) emits its image batch under the color-image archetype.
C18_NoAcceptedFrameIsColor ==
    /\ N = 0 => ~is_depth_image
    /\ (phase = "finalized" /\ N = 0) =>
          /\ output.ok
          /\ archetypes(output.val[1]) = {"Image"}

\* C13: the row count given at creation is a capacity hint only: for every
\* hint and every number N of accepted frames, below, at or above the hint,
\* the append of a frame that decodes and has a table encoding succeeds and
\* adds its row, and finalize after N such appends emits exactly N rows.
C13_HintIsNoLimit ==
    /\ [][(append_step /\ ~Rejectable(last'.msg)) =>
             /\ last'.result.ok
             /\ Len(accepted') = N + 1
             /\ collection_lengths' = {N + 1}]_vars
    /\ []((phase = "finalized" /\ calls = N) =>
             /\ output.ok
             /\ output.val[1].num_rows = N
             /\ output.val[2].num_rows = N)

\* Two rows emitted by a parser created with a hint of one row.
C13_Witness ==
    /\ num_rows = 1
    /\ finalized_ok
    /\ N = 2
    /\ output.val[1].num_rows = 2
    /\ output.val[2].num_rows = 2

\* No row emitted by a parser created with a hint of two rows.
C13_FewerThanHint == num_rows = 2 /\ finalized_ok /\ N = 0 /\ output.val[1].num_rows = 0

\* What finalize returns for a parser that ran alone, from the frames it
\* accepted and the time cells of its own context.
alone_archetype(acc) ==
    IF Len(acc) = 0 THEN "Image"
    ELSE IF resolved_format(acc[Len(acc)]).color_model = None THEN "DepthImage"
    ELSE "Image"

alone_chunks(acc, path, timelines) ==
    << [entity_path |-> path, timelines |-> timelines, num_rows |-> Len(acc),
        components |->
            << [descriptor |-> [archetype |-> alone_archetype(acc), component |-> "buffer"],
                array |-> [i \in 1..Len(acc) |-> <<acc[i].data>>]],
               [descriptor |-> [archetype |-> alone_archetype(acc), component |-> "format"],
                array |-> [i \in 1..Len(acc) |-> <<resolved_format(acc[i])>>]] >>],
       [entity_path |-> path, timelines |-> timelines, num_rows |-> Len(acc),
        components |->
            << metadata_column("height", [i \in 1..Len(acc) |-> <<acc[i].height>>]),
               metadata_column("width", [i \in 1..Len(acc) |-> <<acc[i].width>>]),
               metadata_column("encoding", [i \in 1..Len(acc) |-> <<acc[i].encoding>>]),
               metadata_column("is_bigendian",
                   [i \in 1..Len(acc) |-> <<as_u32(acc[i].is_bigendian)>>]),
               metadata_column("step", [i \in 1..Len(acc) |-> <<acc[i].step>>]) >>] >>

alone_output(inst) ==
    IF \A n \in DOMAIN inst.ctx.timelines : Len(inst.ctx.timelines[n]) = Len(inst.accepted)
    THEN Ok(alone_chunks(inst.accepted, inst.ctx.entity_path, inst.ctx.timelines))
    ELSE Err("BatchConstruction", "")

\* A single parser returns what alone_output says.
AloneOutput == phase = "finalized" => output = alone_output(instance)

\* C12: parsers of distinct channels share no mutable state: a call on one
\* parser leaves the other parser unchanged, and under every interleaving
\* of the calls on two parsers each parser returns the batches it returns
\* when its own calls run alone.
C12_ParsersAreIndependent ==
    /\ [][other'.id = other.id => other' = other]_vars
    /\ [](\A inst \in {instance, other.state} :
             inst.phase = "finalized" => inst.output = alone_output(inst))

\* Both parsers finalized, one as a depth channel and one as a color channel.
C12_Witness ==
    /\ finalized_ok
    /\ other.state.phase = "finalized"
    /\ other.state.output.ok
    /\ N = 1
    /\ Len(other.state.accepted) = 1
    /\ archetypes(output.val[1]) = {"Image"}
    /\ archetypes(other.state.output.val[1]) = {"DepthImage"}

====
